---- MODULE Spec2Model ----
(***************************************************************************)
(* Narrow-type emulation for memref operations                             *)
(* (mlir/lib/Dialect/MemRef/Transforms/EmulateNarrowType.cpp).             *)
(*                                                                         *)
(* Two specifications share this module:                                   *)
(*   Spec        - execution of the instruction sequences that the load    *)
(*                 and store patterns emit, by two concurrent threads      *)
(*                 over a buffer of dstBits-wide containers;               *)
(*   SpecRewrite - one application of a conversion pattern (or of the      *)
(*                 memref type conversion) to one original operation.      *)
(***************************************************************************)
EXTENDS Integers, Sequences, FiniteSets, TLC

VARIABLES
    srcBits,    \* bit width of the emulated (narrow) element type
    dstBits,    \* bit width of the container (load/store) element type
    mem,        \* the converted buffer: container index -> dstBits-bit word
    mem0,       \* the buffer contents before any thread ran (history)
    pc,         \* per thread: position in its emitted instruction sequence
    idx,        \* per thread: linearized source index of its operation
    val,        \* per thread: the narrow value its store writes
    regs,       \* per thread: SSA values computed by the emitted store
    loaded,     \* per thread: container word and result of its load
    reread,     \* per thread: result of the load issued after its store
    op,         \* SpecRewrite: the original operation handed to a pattern
    res         \* SpecRewrite: what the pattern did with it

execVars == <<srcBits, dstBits, mem, mem0, pc, idx, val, regs, loaded, reread>>
rewriteVars == <<op, res>>
vars == <<srcBits, dstBits, mem, mem0, pc, idx, val, regs, loaded, reread, op, res>>

(***************************************************************************)
(* Bounds of the model.                                                    *)
(***************************************************************************)
\* Number of dstBits-wide containers in the executed buffer.
NumContainers == 2

\* The two concurrently executing threads.
Threads == {"A", "B"}

\* The <<srcBits, dstBits>> pairs the executed code is built for.
WidthPairs == {<<1, 8>>, <<2, 8>>, <<4, 8>>, <<8, 16>>}

(***************************************************************************)
(* arith dialect operations on w-bit words, words being 0 .. 2^w - 1.      *)
(***************************************************************************)
\* builder.getIntegerAttr(type, value): the value as a w-bit pattern.
getIntegerAttr(w, value) == value % (2 ^ w)

RECURSIVE AndIOp(_, _)
AndIOp(a, b) ==
    IF a = 0 \/ b = 0 THEN 0
    ELSE (a % 2) * (b % 2) + 2 * AndIOp(a \div 2, b \div 2)

RECURSIVE OrIOp(_, _)
OrIOp(a, b) ==
    IF a = 0 THEN b
    ELSE IF b = 0 THEN a
    ELSE (IF a % 2 = 1 \/ b % 2 = 1 THEN 1 ELSE 0) + 2 * OrIOp(a \div 2, b \div 2)

RECURSIVE XOrIOp(_, _)
XOrIOp(a, b) ==
    IF a = 0 THEN b
    ELSE IF b = 0 THEN a
    ELSE ((a + b) % 2) + 2 * XOrIOp(a \div 2, b \div 2)

\* arith.shli on w bits: bits shifted past the top are dropped.
ShLIOp(a, sh, w) == (a * (2 ^ sh)) % (2 ^ w)

\* arith.shrsi on w bits: the word is read as a signed number, so the sign
\* bit is replicated into the vacated positions.
ShRSIOp(a, sh, w) ==
    LET signed == IF a >= 2 ^ (w - 1) THEN a - 2 ^ w ELSE a
    IN  (signed \div (2 ^ sh)) % (2 ^ w)

\* arith.trunci to w bits.
TruncIOp(a, w) == a % (2 ^ w)

\* arith.extui: zero extension keeps the numeric value.
ExtUIOp(a) == a

(***************************************************************************)
(* Utility functions.                                                      *)
(***************************************************************************)
\* Faulty variant: the right offset counts from scaleFactor, not scaleFactor - 1.
getOffsetForBitwidth_rightOffByOne(srcIdx, sourceBits, targetBits, rightOffset) ==
    LET scaleFactor == targetBits \div sourceBits
    IN  IF rightOffset
        THEN (scaleFactor - (srcIdx % scaleFactor)) * sourceBits
        ELSE (srcIdx % scaleFactor) * sourceBits

getOffsetForBitwidth(srcIdx, sourceBits, targetBits, rightOffset) ==
    LET scaleFactor == targetBits \div sourceBits
    IN  IF rightOffset
        THEN (scaleFactor - 1 - (srcIdx % scaleFactor)) * sourceBits
        ELSE (srcIdx % scaleFactor) * sourceBits

\* Faulty variant: the shifted mask is returned without being inverted.
getAtomicWriteMask_notInverted(linearizedIndices, srcBits_, dstBits_, bitwidthOffset) ==
    ShLIOp(getIntegerAttr(dstBits_, (2 ^ srcBits_) - 1), bitwidthOffset, dstBits_)

\* Faulty variant: the right-aligned mask is 1 << srcBits, not (1 << srcBits) - 1.
getAtomicWriteMask_offByOne(linearizedIndices, srcBits_, dstBits_, bitwidthOffset) ==
    XOrIOp(ShLIOp(getIntegerAttr(dstBits_, 2 ^ srcBits_), bitwidthOffset, dstBits_),
           getIntegerAttr(dstBits_, -1))

getAtomicWriteMask(linearizedIndices, srcBits_, dstBits_, bitwidthOffset) ==
    LET maskRightAligned == getIntegerAttr(dstBits_, (2 ^ srcBits_) - 1)
        writeMaskInverse == ShLIOp(maskRightAligned, bitwidthOffset, dstBits_)
        flipVal == getIntegerAttr(dstBits_, -1)
    IN  XOrIOp(writeMaskInverse, flipVal)

getIndicesForLoadOrStore(linearizedIndex, srcBits_, dstBits_) ==
    LET scaler == dstBits_ \div srcBits_
    IN  linearizedIndex \div scaler

(***************************************************************************)
(* The instruction sequences emitted for a buffer of rank >= 1.            *)
(***************************************************************************)
\* Faulty variant: the write mask is built from the left offset, the value is
\* aligned with the right offset.
storeOperands_maskAtLeftOffset(linearizedIndices, value, srcBits_, dstBits_) ==
    LET bitwidthOffset ==
            getOffsetForBitwidth(linearizedIndices, srcBits_, dstBits_, TRUE)
    IN  [ storeIndices |->
            getIndicesForLoadOrStore(linearizedIndices, srcBits_, dstBits_),
          bitwidthOffset |-> bitwidthOffset,
          writeMask |->
            getAtomicWriteMask(linearizedIndices, srcBits_, dstBits_,
                getOffsetForBitwidth(linearizedIndices, srcBits_, dstBits_, FALSE)),
          alignedVal |-> ShLIOp(ExtUIOp(value), bitwidthOffset, dstBits_) ]

\* The SSA values the emitted store computes before its two atomics.
storeOperands(linearizedIndices, value, srcBits_, dstBits_) ==
    LET extendedInput == ExtUIOp(value)
        bitwidthOffset ==
            getOffsetForBitwidth(linearizedIndices, srcBits_, dstBits_, TRUE)
    IN  [ storeIndices |->
            getIndicesForLoadOrStore(linearizedIndices, srcBits_, dstBits_),
          bitwidthOffset |-> bitwidthOffset,
          writeMask |->
            getAtomicWriteMask(linearizedIndices, srcBits_, dstBits_, bitwidthOffset),
          alignedVal |-> ShLIOp(extendedInput, bitwidthOffset, dstBits_) ]

\* The emitted load: container load, arithmetic shift right by the
\* (left) bit offset, then mask or truncation to the low srcBits bits.
loadResult(newLoad, linearizedIndices, srcBits_, dstBits_, viaMask) ==
    LET bitwidthOffset ==
            getOffsetForBitwidth(linearizedIndices, srcBits_, dstBits_, FALSE)
        bitsLoad == ShRSIOp(newLoad, bitwidthOffset, dstBits_)
    IN  IF viaMask
        THEN AndIOp(bitsLoad, getIntegerAttr(dstBits_, (2 ^ srcBits_) - 1))
        ELSE TruncIOp(bitsLoad, srcBits_)

(***************************************************************************)
(* Execution of the emitted code.                                          *)
(***************************************************************************)
Containers == 0 .. (NumContainers - 1)
Words(w) == 0 .. ((2 ^ w) - 1)
\* In-range linearized source indices of the buffer.
Indices == 0 .. (NumContainers * (dstBits \div srcBits) - 1)
\* Initial container contents: all zeros, all ones and a mixed pattern
\* whose fields differ from one another.
InitWords(w) == {0, (2 ^ w) - 1, IF w <= 8 THEN 27 ELSE 6939}
\* Values stored: every value of a 1- or 2-bit type, a sample of a wider one.
StoreValues(w) ==
    IF w <= 2 THEN Words(w)
    ELSE {0, 1, 2 ^ (w - 1), (2 ^ w) - 1, ((2 ^ w) - 1) \div 3}

NoRegs == [storeIndices |-> 0, bitwidthOffset |-> 0, writeMask |-> 0, alignedVal |-> 0]
NoLoad == [done |-> FALSE, word |-> 0, result |-> 0]
NoOp == [kind |-> "none"]
NoRes == [status |-> "none"]

InitExec ==
    /\ \E w \in WidthPairs : srcBits = w[1] /\ dstBits = w[2]
    /\ \E w \in InitWords(dstBits) : mem = [c \in Containers |-> w]
    /\ mem0 = mem
    /\ pc = [t \in Threads |-> "start"]
    /\ idx = [t \in Threads |-> 0]
    /\ val = [t \in Threads |-> 0]
    /\ regs = [t \in Threads |-> NoRegs]
    /\ loaded = [t \in Threads |-> NoLoad]
    /\ reread = [t \in Threads |-> -1]
    /\ op = NoOp
    /\ res = NoRes

\* The emitted load of element i, executed by thread t as its first operation.
Load(t, i, viaMask) ==
    /\ pc[t] = "start"
    /\ LET newLoad == mem[getIndicesForLoadOrStore(i, srcBits, dstBits)]
       IN  loaded' = [loaded EXCEPT ![t] =
                [done |-> TRUE, word |-> newLoad,
                 result |-> loadResult(newLoad, i, srcBits, dstBits, viaMask)]]
    /\ idx' = [idx EXCEPT ![t] = i]
    /\ pc' = [pc EXCEPT ![t] = "loaded"]
    /\ UNCHANGED <<srcBits, dstBits, mem, mem0, val, regs, reread, op, res>>

\* First atomic of the emitted store: memref.atomic_rmw andi with the write
\* mask.  A thread either stores a fresh value v at index i, or stores the
\* value it has just loaded back to the index it loaded it from.
AtomicRMWAndi(t, i, v) ==
    /\ \/ pc[t] = "start"
       \/ pc[t] = "loaded" /\ i = idx[t] /\ v = loaded[t].result
    /\ LET o == storeOperands(i, v, srcBits, dstBits)
       IN  /\ regs' = [regs EXCEPT ![t] = o]
           /\ mem' = [mem EXCEPT ![o.storeIndices] = AndIOp(@, o.writeMask)]
    /\ idx' = [idx EXCEPT ![t] = i]
    /\ val' = [val EXCEPT ![t] = v]
    /\ pc' = [pc EXCEPT ![t] = "cleared"]
    /\ UNCHANGED <<srcBits, dstBits, mem0, loaded, reread, op, res>>

\* Faulty variant: the second atomic is of kind addi, not ori.
AtomicRMWOri_addi(t) ==
    /\ pc[t] = "cleared"
    /\ mem' = [mem EXCEPT ![regs[t].storeIndices] =
                  (@ + regs[t].alignedVal) % (2 ^ dstBits)]
    /\ pc' = [pc EXCEPT ![t] = "stored"]
    /\ UNCHANGED <<srcBits, dstBits, mem0, idx, val, regs, loaded, reread, op, res>>

\* Second atomic of the emitted store: memref.atomic_rmw ori with the
\* aligned value.
AtomicRMWOri(t) ==
    /\ pc[t] = "cleared"
    /\ mem' = [mem EXCEPT ![regs[t].storeIndices] = OrIOp(@, regs[t].alignedVal)]
    /\ pc' = [pc EXCEPT ![t] = "stored"]
    /\ UNCHANGED <<srcBits, dstBits, mem0, idx, val, regs, loaded, reread, op, res>>

\* The emitted load of the element the thread has just stored.
LoadAfterStore(t, viaMask) ==
    /\ pc[t] = "stored"
    /\ LET newLoad == mem[getIndicesForLoadOrStore(idx[t], srcBits, dstBits)]
       IN  reread' = [reread EXCEPT ![t] =
                loadResult(newLoad, idx[t], srcBits, dstBits, viaMask)]
    /\ pc' = [pc EXCEPT ![t] = "reread"]
    /\ UNCHANGED <<srcBits, dstBits, mem, mem0, idx, val, regs, loaded, op, res>>

Next ==
    \/ \E t \in Threads, i \in Indices, viaMask \in BOOLEAN : Load(t, i, viaMask)
    \/ \E t \in Threads, i \in Indices :
          \E v \in StoreValues(srcBits) \cup {loaded[t].result} : AtomicRMWAndi(t, i, v)
    \/ \E t \in Threads : AtomicRMWOri(t)
    \/ \E t \in Threads, viaMask \in BOOLEAN : LoadAfterStore(t, viaMask)

Spec == InitExec /\ [][Next]_vars

(***************************************************************************)
(* Execution of the code emitted for a rank-0 buffer: one container, no    *)
(* index operands.                                                         *)
(***************************************************************************)
\* The SSA values the emitted rank-0 store computes before its two atomics:
\* the value shifted left by dstBits - srcBits, and the constant mask
\* (1 << (dstBits - srcBits)) - 1.
rank0StoreOperands(value, srcBits_, dstBits_) ==
    LET extendedInput == ExtUIOp(value)
        shiftVal == getIntegerAttr(dstBits_, dstBits_ - srcBits_)
    IN  [ storeIndices |-> 0,
          bitwidthOffset |-> shiftVal,
          writeMask |-> getIntegerAttr(dstBits_, (2 ^ (dstBits_ - srcBits_)) - 1),
          alignedVal |-> ShLIOp(extendedInput, shiftVal, dstBits_) ]

\* The emitted rank-0 load: container load with no shift, then mask or
\* truncation to the low srcBits bits.
rank0LoadResult(bitsLoad, srcBits_, dstBits_, viaMask) ==
    IF viaMask
    THEN AndIOp(bitsLoad, getIntegerAttr(dstBits_, (2 ^ srcBits_) - 1))
    ELSE TruncIOp(bitsLoad, srcBits_)

InitRank0 ==
    /\ \E w \in WidthPairs : srcBits = w[1] /\ dstBits = w[2]
    /\ \E w \in InitWords(dstBits) : mem = [c \in {0} |-> w]
    /\ mem0 = mem
    /\ pc = [t \in Threads |-> "start"]
    /\ idx = [t \in Threads |-> 0]
    /\ val = [t \in Threads |-> 0]
    /\ regs = [t \in Threads |-> NoRegs]
    /\ loaded = [t \in Threads |-> NoLoad]
    /\ reread = [t \in Threads |-> -1]
    /\ op = NoOp
    /\ res = NoRes

\* The emitted rank-0 load, executed by thread t as its first operation.
Rank0Load(t, viaMask) ==
    /\ pc[t] = "start"
    /\ LET bitsLoad == mem[0]
       IN  loaded' = [loaded EXCEPT ![t] =
                [done |-> TRUE, word |-> bitsLoad,
                 result |-> rank0LoadResult(bitsLoad, srcBits, dstBits, viaMask)]]
    /\ pc' = [pc EXCEPT ![t] = "loaded"]
    /\ UNCHANGED <<srcBits, dstBits, mem, mem0, idx, val, regs, reread, op, res>>

\* First atomic of the emitted rank-0 store: memref.atomic_rmw andi with the
\* constant mask.  A thread stores a fresh value, or the value it has loaded.
Rank0AtomicRMWAndi(t, v) ==
    /\ \/ pc[t] = "start"
       \/ pc[t] = "loaded" /\ v = loaded[t].result
    /\ LET o == rank0StoreOperands(v, srcBits, dstBits)
       IN  /\ regs' = [regs EXCEPT ![t] = o]
           /\ mem' = [mem EXCEPT ![0] = AndIOp(@, o.writeMask)]
    /\ val' = [val EXCEPT ![t] = v]
    /\ pc' = [pc EXCEPT ![t] = "cleared"]
    /\ UNCHANGED <<srcBits, dstBits, mem0, idx, loaded, reread, op, res>>

\* Second atomic of the emitted rank-0 store: memref.atomic_rmw ori with the
\* aligned value.
Rank0AtomicRMWOri(t) ==
    /\ pc[t] = "cleared"
    /\ mem' = [mem EXCEPT ![0] = OrIOp(@, regs[t].alignedVal)]
    /\ pc' = [pc EXCEPT ![t] = "stored"]
    /\ UNCHANGED <<srcBits, dstBits, mem0, idx, val, regs, loaded, reread, op, res>>

\* The emitted rank-0 load issued after the thread's store.
Rank0LoadAfterStore(t, viaMask) ==
    /\ pc[t] = "stored"
    /\ reread' = [reread EXCEPT ![t] =
            rank0LoadResult(mem[0], srcBits, dstBits, viaMask)]
    /\ pc' = [pc EXCEPT ![t] = "reread"]
    /\ UNCHANGED <<srcBits, dstBits, mem, mem0, idx, val, regs, loaded, op, res>>

NextRank0 ==
    \/ \E t \in Threads, viaMask \in BOOLEAN : Rank0Load(t, viaMask)
    \/ \E t \in Threads :
          \E v \in StoreValues(srcBits) \cup {loaded[t].result} :
              Rank0AtomicRMWAndi(t, v)
    \/ \E t \in Threads : Rank0AtomicRMWOri(t)
    \/ \E t \in Threads, viaMask \in BOOLEAN : Rank0LoadAfterStore(t, viaMask)

SpecRank0 == InitRank0 /\ [][NextRank0]_vars

(***************************************************************************)
(* Memref types and the memref type conversion.                            *)
(***************************************************************************)
\* ShapedType::kDynamic, the marker of a dynamic size, stride or offset.
kDynamic == -1

\* Largest static dimension size, largest rank and largest static offset of
\* the memref types handed to the conversion.
MaxDim == 3
MaxRank == 2
MaxOffset == 2

\* typeConverter.getLoadStoreBitwidth() of the converters in use.
LoadStoreBitwidths == {8, 16}
\* Integer element widths, including one (3) that divides no container width.
IntWidths == {3, 4, 8}

Rank(ty) == Len(ty.shape)

\* Strides of the identity layout of a shape (innermost stride 1).
RECURSIVE identityStrides(_)
identityStrides(shape) ==
    IF shape = <<>> THEN <<>>
    ELSE IF Len(shape) = 1 THEN <<1>>
    ELSE LET rest == identityStrides(Tail(shape))
             inner == shape[2]
         IN  <<IF inner = kDynamic \/ rest[1] = kDynamic
               THEN kDynamic ELSE inner * rest[1]>> \o rest

\* The loop of getLinearizedShape: the product of the sizes, or kDynamic as
\* soon as a dynamic size is met.
RECURSIVE linearizedShapeLoop(_, _, _)
linearizedShapeLoop(shape, i, linearizedShape) ==
    IF i > Len(shape) THEN linearizedShape
    ELSE IF shape[i] = kDynamic THEN kDynamic
    ELSE linearizedShapeLoop(shape, i + 1, linearizedShape * shape[i])

\* Faulty variant: the size is scaled with a flooring division.
getLinearizedShape_floor(ty, srcBits_, dstBits_) ==
    IF Rank(ty) = 0 THEN <<>>
    ELSE LET linearizedShape == linearizedShapeLoop(ty.shape, 1, 1)
             scale_ == dstBits_ \div srcBits_
         IN  IF linearizedShape = kDynamic THEN <<kDynamic>>
             ELSE <<linearizedShape \div scale_>>

getLinearizedShape(ty, srcBits_, dstBits_) ==
    IF Rank(ty) = 0 THEN <<>>
    ELSE LET linearizedShape == linearizedShapeLoop(ty.shape, 1, 1)
             scale_ == dstBits_ \div srcBits_
         IN  IF linearizedShape = kDynamic THEN <<kDynamic>>
             ELSE <<(linearizedShape + scale_ - 1) \div scale_>>

\* std::nullopt: no valid conversion.
nullopt(ty) == [converted |-> FALSE, ty |-> ty]
\* A type returned by the conversion (the original one, or a new one).
someType(ty) == [converted |-> TRUE, ty |-> ty]

\* MemRefType::get(getLinearizedShape(...), newElemTy, layoutAttr, memorySpace).
narrowMemRefType(ty, loadStoreWidth, hasLayout, offset) ==
    LET shape == getLinearizedShape(ty, ty.width, loadStoreWidth)
    IN  someType([ isInt |-> TRUE,
                   width |-> loadStoreWidth,
                   signedness |-> ty.signedness,
                   shape |-> shape,
                   strided |-> TRUE,
                   strides |-> IF hasLayout THEN <<1>> ELSE identityStrides(shape),
                   offset |-> offset,
                   layoutAttr |-> hasLayout,
                   memorySpace |-> ty.memorySpace ])

\* Faulty variant: the static offset is divided without the divisibility check.
memrefTypeConversion_uncheckedOffset(ty, loadStoreWidth) ==
    IF ~ty.isInt THEN someType(ty)
    ELSE IF ty.width >= loadStoreWidth THEN someType(ty)
    ELSE IF ~ty.strided THEN nullopt(ty)
    ELSE IF ty.strides # <<>> /\ ty.strides[Len(ty.strides)] # 1 THEN nullopt(ty)
    ELSE IF ty.offset = 0 THEN narrowMemRefType(ty, loadStoreWidth, FALSE, 0)
    ELSE IF ty.offset = kDynamic
    THEN narrowMemRefType(ty, loadStoreWidth, TRUE, kDynamic)
    ELSE narrowMemRefType(ty, loadStoreWidth, TRUE,
                          (ty.offset * ty.width) \div loadStoreWidth)

\* The conversion registered for MemRefType.
memrefTypeConversion(ty, loadStoreWidth) ==
    IF ~ty.isInt THEN someType(ty)
    ELSE IF ty.width >= loadStoreWidth THEN someType(ty)
    ELSE IF ~ty.strided THEN nullopt(ty)
    ELSE IF ty.strides # <<>> /\ ty.strides[Len(ty.strides)] # 1 THEN nullopt(ty)
    ELSE IF ty.offset = 0 THEN narrowMemRefType(ty, loadStoreWidth, FALSE, 0)
    ELSE IF ty.offset = kDynamic
    THEN narrowMemRefType(ty, loadStoreWidth, TRUE, kDynamic)
    ELSE IF (ty.offset * ty.width) % loadStoreWidth # 0 THEN nullopt(ty)
    ELSE narrowMemRefType(ty, loadStoreWidth, TRUE,
                          (ty.offset * ty.width) \div loadStoreWidth)

\* TypeConverter::convertType: the registered conversion decides; a null
\* type stands for "no valid conversion".
convertType(ty, loadStoreWidth) == memrefTypeConversion(ty, loadStoreWidth)

hasStaticShape(ty) == \A i \in 1 .. Len(ty.shape) : ty.shape[i] # kDynamic

ceilDiv(lhs, rhs) == (lhs + rhs - 1) \div rhs

(***************************************************************************)
(* The conversion patterns.  Each yields what matchAndRewrite did: its     *)
(* LogicalResult, the diagnostic of notifyMatchFailure, the operations     *)
(* created through the rewriter in creation order, and whether the         *)
(* original operation was replaced or erased.                              *)
(***************************************************************************)
notifyMatchFailure(diag, created) ==
    [status |-> "failure", diag |-> diag, emitted |-> created,
     replaced |-> FALSE, new |-> [kind |-> "none"]]

success(created, new) ==
    [status |-> "success", diag |-> "", emitted |-> created,
     replaced |-> TRUE, new |-> new]

\* Operations that linearize the indices of a load or store and derive the
\* container index and the bit offset from them.
linearizeOps == <<"memref.extract_strided_metadata", "affine.apply">>

ConvertMemRefAlloc(o) ==
    LET currentType == o.ty
        newResultType == convertType(o.ty, o.loadStoreWidth)
    IN  IF ~newResultType.converted
        THEN notifyMatchFailure("failed to convert memref type", <<>>)
        ELSE IF Rank(currentType) = 0
        THEN success(<<"memref.alloc">>,
                     [kind |-> "memref.alloc", ty |-> newResultType.ty,
                      dynamicSizes |-> 0])
        ELSE LET dynamicLinearizedSize ==
                     IF ~hasStaticShape(newResultType.ty)
                     THEN <<"affine.apply">> ELSE <<>>
             IN  success(dynamicLinearizedSize \o <<"memref.alloc">>,
                         [kind |-> "memref.alloc", ty |-> newResultType.ty,
                          dynamicSizes |-> Len(dynamicLinearizedSize)])

ConvertMemRefAssumeAlignment(o) ==
    LET newTy == convertType(o.ty, o.loadStoreWidth)
    IN  IF ~newTy.converted
        THEN notifyMatchFailure("failed to convert memref type", <<>>)
        ELSE success(<<"memref.assume_alignment">>,
                     [kind |-> "memref.assume_alignment", ty |-> newTy.ty])

\* What the load pattern creates once its check has passed.
loadReplacement(o, convertedType) ==
    LET bitsLoad ==
            IF Rank(convertedType) = 0
            THEN <<"memref.load">>
            ELSE linearizeOps \o
                 <<"affine.apply", "memref.load",
                   "affine.apply", "arith.index_cast", "arith.shrsi">>
        result ==
            IF o.resultTyIsContainerTy
            THEN <<"arith.constant", "arith.andi">>
            ELSE <<"arith.trunci">>
    IN  success(bitsLoad \o result,
                [kind |-> result[Len(result)], ty |-> convertedType])

ConvertMemRefLoad(o) ==
    LET convertedType == convertType(o.ty, o.loadStoreWidth).ty
        srcBits_ == o.ty.width
        dstBits_ == convertedType.width
    IN  IF dstBits_ % srcBits_ # 0
        THEN notifyMatchFailure("only dstBits % srcBits == 0 supported", <<>>)
        ELSE loadReplacement(o, convertedType)

ConvertMemRefReinterpretCast(o) ==
    LET newTy == convertType(o.ty, o.loadStoreWidth)
        srcBits_ == o.ty.width
        dstBits_ == newTy.ty.width
        offset == o.staticOffset
        elementsPerByte == dstBits_ \div srcBits_
    IN  IF ~newTy.converted
        THEN notifyMatchFailure("failed to convert memref type", <<>>)
        ELSE IF dstBits_ % srcBits_ # 0
        THEN notifyMatchFailure("only dstBits % srcBits == 0 supported", <<>>)
        ELSE IF Rank(o.ty) # 0
        THEN notifyMatchFailure("subview with rank > 0 is not supported", <<>>)
        ELSE IF offset = kDynamic
        THEN notifyMatchFailure("subview with dynamic offset is not supported", <<>>)
        ELSE IF offset % elementsPerByte # 0
        THEN notifyMatchFailure(
                 "subview with offset not multiple of elementsPerByte is not supported",
                 <<>>)
        ELSE success(<<"memref.reinterpret_cast">>,
                     [kind |-> "memref.reinterpret_cast", ty |-> newTy.ty,
                      offset |-> offset \div elementsPerByte,
                      sizes |-> <<>>, stride |-> o.staticStride])

\* What the store pattern creates after the zero extension of the value.
storeReplacement(extendedInput, convertedType) ==
    IF Rank(convertedType) = 0
    THEN success(extendedInput \o
                 <<"arith.constant", "arith.shli", "arith.constant",
                   "memref.atomic_rmw andi", "memref.atomic_rmw ori">>,
                 [kind |-> "erased", ty |-> convertedType])
    ELSE success(extendedInput \o linearizeOps \o
                 <<"affine.apply",
                   "affine.apply", "arith.index_cast",
                   "arith.constant", "arith.shli", "arith.constant", "arith.xori",
                   "arith.shli",
                   "memref.atomic_rmw andi", "memref.atomic_rmw ori">>,
                 [kind |-> "erased", ty |-> convertedType])

\* Faulty variant: the value is zero-extended before the divisibility check.
ConvertMemrefStore_extendFirst(o) ==
    LET convertedType == convertType(o.ty, o.loadStoreWidth).ty
        extendedInput == <<"arith.extui">>
    IN  IF convertedType.width % o.ty.width # 0
        THEN notifyMatchFailure("only dstBits % srcBits == 0 supported",
                                extendedInput)
        ELSE storeReplacement(extendedInput, convertedType)

ConvertMemrefStore(o) ==
    LET convertedType == convertType(o.ty, o.loadStoreWidth).ty
        srcBits_ == o.ty.width
        dstBits_ == convertedType.width
    IN  IF dstBits_ % srcBits_ # 0
        THEN notifyMatchFailure("only dstBits % srcBits == 0 supported", <<>>)
        ELSE LET extendedInput == <<"arith.extui">>
             IN  storeReplacement(extendedInput, convertedType)

ConvertMemRefSubview(o) ==
    LET newTy == convertType(o.ty, o.loadStoreWidth)
        srcBits_ == o.ty.width
        dstBits_ == newTy.ty.width
        size == o.staticSize
        offset == o.staticOffset
        elementsPerByte == dstBits_ \div srcBits_
    IN  IF ~newTy.converted
        THEN notifyMatchFailure("failed to convert memref type", <<>>)
        ELSE IF dstBits_ % srcBits_ # 0
        THEN notifyMatchFailure("only dstBits % srcBits == 0 supported", <<>>)
        ELSE IF Rank(o.ty) # 1
        THEN notifyMatchFailure("subview with rank > 1 is not supported", <<>>)
        ELSE IF o.staticStride # 1
        THEN notifyMatchFailure("subview with stride != 1 is not supported", <<>>)
        ELSE IF size = kDynamic \/ offset = kDynamic
        THEN notifyMatchFailure(
                 "subview with dynamic size or offset is not supported", <<>>)
        ELSE IF offset % elementsPerByte # 0
        THEN notifyMatchFailure(
                 "subview with offset not multiple of elementsPerByte is not supported",
                 <<>>)
        ELSE success(<<"memref.subview">>,
                     [kind |-> "memref.subview", ty |-> newTy.ty,
                      offset |-> offset \div elementsPerByte,
                      size |-> ceilDiv(size, elementsPerByte),
                      stride |-> o.staticStride])

(***************************************************************************)
(* One pattern application.                                                *)
(***************************************************************************)
Dims == (1 .. MaxDim) \cup {kDynamic}
Shapes == UNION {[1 .. n -> Dims] : n \in 0 .. MaxRank}
Offsets == (0 .. MaxOffset) \cup {kDynamic}
\* Strides of a strided layout over a shape: those of the identity layout,
\* with an innermost stride of 1, of 2 or dynamic.
StridesOf(shape) ==
    IF shape = <<>> THEN {<<>>}
    ELSE {[identityStrides(shape) EXCEPT ![Len(shape)] = inner] :
              inner \in {1, 2, kDynamic}}
ElementTypes ==
    {[isInt |-> TRUE, width |-> w] : w \in IntWidths}
        \cup {[isInt |-> FALSE, width |-> 8]}
TypeAttrs ==
    {[signedness |-> "signless", memorySpace |-> 0],
     [signedness |-> "unsigned", memorySpace |-> 1]}

MemRefType(e, a, shape, strided, strides, offset) ==
    [ isInt |-> e.isInt, width |-> e.width, signedness |-> a.signedness,
      shape |-> shape, strided |-> strided, strides |-> strides,
      offset |-> offset,
      layoutAttr |-> ~(strided /\ offset = 0 /\ strides = identityStrides(shape)),
      memorySpace |-> a.memorySpace ]

\* Layouts of a memref type over a shape: the strided ones, and one that
\* is not strided (getStridesAndOffset fails on it).
LayoutsOf(shape) ==
    {[strided |-> TRUE, strides |-> st, offset |-> off] :
        st \in StridesOf(shape), off \in Offsets}
    \cup {[strided |-> FALSE, strides |-> identityStrides(shape), offset |-> 0]}

Operation(kind, ty, lsw, offset, size, stride, flag) ==
    [ kind |-> kind, ty |-> ty, loadStoreWidth |-> lsw,
      staticOffset |-> offset, staticSize |-> size, staticStride |-> stride,
      resultTyIsContainerTy |-> flag ]

OpKinds ==
    {"memref.alloc", "memref.assume_alignment", "memref.load", "memref.store",
     "memref.reinterpret_cast", "memref.subview", "type"}

\* Static offset, size and stride of the operation, and whether the
\* converted result type of a load is the container type.
ParamsOf(kind) ==
    IF kind = "memref.subview"
    THEN Offsets \X {1, 3, kDynamic} \X {1, 2} \X {FALSE}
    ELSE IF kind = "memref.reinterpret_cast"
    THEN Offsets \X {0} \X {1} \X {FALSE}
    ELSE IF kind = "memref.load"
    THEN {0} \X {0} \X {1} \X BOOLEAN
    ELSE {0} \X {0} \X {1} \X {FALSE}

\* The operation handed to a pattern.  ty is the memref type the pattern
\* converts: the result type of alloc, reinterpret_cast and subview, the
\* type of the memref operand of assume_alignment, load and store.
InitRewrite ==
    /\ \E kind \in OpKinds, e \in ElementTypes, a \in TypeAttrs,
          shape \in Shapes, lsw \in LoadStoreBitwidths :
          \E l \in LayoutsOf(shape), x \in ParamsOf(kind) :
              op = Operation(kind,
                             MemRefType(e, a, shape, l.strided, l.strides, l.offset),
                             lsw, x[1], x[2], x[3], x[4])
    /\ res = NoRes
    /\ srcBits = 1
    /\ dstBits = 8
    /\ mem = [c \in Containers |-> 0]
    /\ mem0 = mem
    /\ pc = [t \in Threads |-> "start"]
    /\ idx = [t \in Threads |-> 0]
    /\ val = [t \in Threads |-> 0]
    /\ regs = [t \in Threads |-> NoRegs]
    /\ loaded = [t \in Threads |-> NoLoad]
    /\ reread = [t \in Threads |-> -1]

Pending(kind) == op.kind = kind /\ res = NoRes

RewriteAlloc ==
    /\ Pending("memref.alloc")
    /\ res' = ConvertMemRefAlloc(op)
    /\ UNCHANGED <<op, execVars>>

RewriteAssumeAlignment ==
    /\ Pending("memref.assume_alignment")
    /\ res' = ConvertMemRefAssumeAlignment(op)
    /\ UNCHANGED <<op, execVars>>

\* The operands of a load or store reach the pattern already converted: the
\* pattern runs only if the type of the memref operand converts.
RewriteLoad ==
    /\ Pending("memref.load")
    /\ convertType(op.ty, op.loadStoreWidth).converted
    /\ res' = ConvertMemRefLoad(op)
    /\ UNCHANGED <<op, execVars>>

RewriteStore ==
    /\ Pending("memref.store")
    /\ convertType(op.ty, op.loadStoreWidth).converted
    /\ res' = ConvertMemrefStore(op)
    /\ UNCHANGED <<op, execVars>>

RewriteReinterpretCast ==
    /\ Pending("memref.reinterpret_cast")
    /\ res' = ConvertMemRefReinterpretCast(op)
    /\ UNCHANGED <<op, execVars>>

RewriteSubview ==
    /\ Pending("memref.subview")
    /\ res' = ConvertMemRefSubview(op)
    /\ UNCHANGED <<op, execVars>>

\* The memref type conversion applied to a type on its own.
ConvertType ==
    /\ Pending("type")
    /\ LET r == memrefTypeConversion(op.ty, op.loadStoreWidth)
       IN  res' = [status |-> IF r.converted THEN "converted" ELSE "nullopt",
                   ty |-> r.ty]
    /\ UNCHANGED <<op, execVars>>

NextRewrite ==
    \/ RewriteAlloc
    \/ RewriteAssumeAlignment
    \/ RewriteLoad
    \/ RewriteStore
    \/ RewriteReinterpretCast
    \/ RewriteSubview
    \/ ConvertType

SpecRewrite == InitRewrite /\ [][NextRewrite]_vars

(***************************************************************************)
(* Vocabulary of the properties of the patterns.                           *)
(***************************************************************************)
PatternKinds ==
    {"memref.alloc", "memref.assume_alignment", "memref.load", "memref.store",
     "memref.reinterpret_cast", "memref.subview"}
\* A pattern has been applied to the operation.
Rewritten == op.kind \in PatternKinds /\ res # NoRes
\* The type conversion has been applied to the type.
TypeConverted == op.kind = "type" /\ res # NoRes
\* The buffer has narrow integer elements.
Narrow == op.ty.isInt /\ op.ty.width < op.loadStoreWidth
\* The target width is not an exact multiple of the source width.
Indivisible == Narrow /\ op.loadStoreWidth % op.ty.width # 0
InnermostStrideIsOne ==
    op.ty.strides = <<>> \/ op.ty.strides[Len(op.ty.strides)] = 1
Rejected == res.status = "failure" /\ res.emitted = <<>> /\ ~res.replaced
StrideDiag == "subview with stride != 1 is not supported"

RECURSIVE Product(_)
Product(shape) == IF shape = <<>> THEN 1 ELSE Head(shape) * Product(Tail(shape))
\* The least q with q * d >= n.
Ceil(n, d) == CHOOSE q \in 0 .. n : q * d >= n /\ (q = 0 \/ (q - 1) * d < n)
Static(shape) == \A i \in 1 .. Len(shape) : shape[i] # kDynamic

\* C5: every pattern - allocate, assume-alignment, load, store,
\* reinterpret-view, sub-range-view - rejects a buffer whose target width is
\* not an exact multiple of its source width, and produces no replacement.
C5_EveryPatternRejectsIndivisible ==
    (Rewritten /\ Indivisible) => Rejected

\* C6: a sub-range view with a stride other than 1 over a
\* narrow-element buffer is rejected with the stride diagnostic and no
\* instruction emitted; no earlier check fires first.  Stated for the static
\* rank-1 views of a contiguous buffer whose widths divide: their result type
\* carries the stride and the offset of the view.
C6_StrideDiagnosticFirst ==
    (/\ Rewritten /\ op.kind = "memref.subview" /\ Narrow /\ op.staticStride # 1
     /\ ~Indivisible /\ Rank(op.ty) = 1 /\ Static(op.ty.shape)
     /\ op.staticSize # kDynamic /\ op.staticOffset # kDynamic
     /\ op.ty.strided /\ op.ty.strides = <<op.staticStride>>
     /\ op.ty.offset = op.staticOffset) =>
        Rejected /\ res.diag = StrideDiag

\* C7 (as stated): the conversion of a narrow-element type (whose width
\* divides the addressable width) with a static shape of any rank yields the
\* rank-1 shape <<ceil(totalCount / scale)>>;
\* with a dynamic dimension it yields a single dynamic dimension.
C7_LinearizedShapeAnyRank ==
    (TypeConverted /\ Narrow /\ ~Indivisible /\ res.status = "converted") =>
        IF Static(op.ty.shape)
        THEN res.ty.shape =
                 <<Ceil(Product(op.ty.shape), op.loadStoreWidth \div op.ty.width)>>
        ELSE res.ty.shape = <<kDynamic>>

\* C7 (amended): as stated for every rank >= 1; a rank-0 type converts to a
\* rank-0 type (an empty shape).
C7_LinearizedShape ==
    (TypeConverted /\ Narrow /\ ~Indivisible /\ res.status = "converted") =>
        IF Rank(op.ty) = 0 THEN res.ty.shape = <<>>
        ELSE IF Static(op.ty.shape)
        THEN res.ty.shape =
                 <<Ceil(Product(op.ty.shape), op.loadStoreWidth \div op.ty.width)>>
        ELSE res.ty.shape = <<kDynamic>>

\* C7 witness: a static rank-2 type whose element count is not a multiple of
\* the scale was converted.
C7_Witness ==
    /\ TypeConverted /\ Narrow /\ res.status = "converted"
    /\ Rank(op.ty) = 2 /\ Static(op.ty.shape)
    /\ Product(op.ty.shape) % (op.loadStoreWidth \div op.ty.width) # 0
    /\ Product(op.ty.shape) > op.loadStoreWidth \div op.ty.width

\* C8: for a narrow-element type with a static nonzero offset the conversion
\* succeeds only if (offset * width) mod loadStoreWidth = 0, the new offset
\* then being (offset * width) / loadStoreWidth with stride 1; otherwise it
\* yields no valid conversion, which is not the type unchanged.  A dynamic
\* offset stays dynamic, and offset 0 yields no explicit layout.
C8_OffsetConversion ==
    (TypeConverted /\ Narrow) =>
        LET bits == op.ty.offset * op.ty.width
            converted == res.status = "converted"
        IN  /\ res.status \in {"converted", "nullopt"}
            /\ converted => res.ty # op.ty /\ res.ty.width = op.loadStoreWidth
            /\ op.ty.offset \notin {0, kDynamic} =>
                  /\ converted =>
                        /\ bits % op.loadStoreWidth = 0
                        /\ res.ty.layoutAttr
                        /\ res.ty.offset * op.loadStoreWidth = bits
                        /\ res.ty.strides = <<1>>
                  /\ bits % op.loadStoreWidth # 0 => res.status = "nullopt"
                  /\ (bits % op.loadStoreWidth = 0
                        /\ op.ty.strided /\ InnermostStrideIsOne) => converted
            /\ (op.ty.offset = kDynamic /\ converted) =>
                  /\ res.ty.layoutAttr
                  /\ res.ty.offset = kDynamic
                  /\ res.ty.strides = <<1>>
            /\ (op.ty.offset = 0 /\ converted) =>
                  ~res.ty.layoutAttr /\ res.ty.offset = 0

\* C8 witness: a type of 4-bit elements at offset 2 was converted for an
\* 8-bit target.
C8_Witness ==
    /\ TypeConverted /\ Narrow /\ res.status = "converted"
    /\ op.ty.width = 4 /\ op.loadStoreWidth = 8 /\ op.ty.offset = 2
    /\ res.ty.offset = 1

\* C9: no partial mutation on rejection: whenever a pattern reports failure,
\* no instruction has been created and the original operation is still in
\* place, neither replaced nor erased.
C9_NoPartialMutation ==
    (Rewritten /\ res.status = "failure") =>
        /\ res.emitted = <<>>
        /\ ~res.replaced
        /\ res.new.kind = "none"
        /\ res.diag # ""

\* C9 witness: a sub-range view was rejected by the last of its checks.
C9_Witness ==
    /\ Rewritten /\ op.kind = "memref.subview"
    /\ res.status = "failure"
    /\ res.diag = "subview with offset not multiple of elementsPerByte is not supported"

(***************************************************************************)
(* Vocabulary of the properties of the executed code.                      *)
(***************************************************************************)
Bit(word, b) == (word \div (2 ^ b)) % 2
\* The srcBits-wide field of a container word that starts at bit off.
Field(word, off) == (word \div (2 ^ off)) % (2 ^ srcBits)
FieldBits(off) == off .. (off + srcBits - 1)
ZeroBits(word) == {b \in 0 .. (dstBits - 1) : Bit(word, b) = 0}
OneBits(word) == {b \in 0 .. (dstBits - 1) : Bit(word, b) = 1}
\* Two container words agree on every bit outside the given bit positions.
SameOutside(w1, w2, bits) ==
    \A b \in (0 .. (dstBits - 1)) \ bits : Bit(w1, b) = Bit(w2, b)
scale == dstBits \div srcBits
Container(i) == i \div scale
HasStored(t) == pc[t] \in {"stored", "reread"}
InStore(t) == pc[t] \in {"cleared", "stored", "reread"}
\* The other thread has not written to the buffer.
OthersHaveNotWritten(t) == \A u \in Threads \ {t} : pc[u] \in {"start", "loaded"}

\* C1: read-after-write on a rank >= 1 buffer: once the rewritten store of v
\* at index i has completed, the rewritten load at the same index returns v
\* (no other thread having written to the buffer).
C1_ReadAfterWrite ==
    \A t \in Threads :
        (pc[t] = "reread" /\ OthersHaveNotWritten(t)) => reread[t] = val[t]

\* C2: load-then-store-back isolation: after the rewritten load at index i
\* and the rewritten store of the loaded value back at index i, the rewritten
\* load at every other index j of the same container returns what it
\* returned before.
C2_LoadStoreBackIsolation ==
    \A t \in Threads :
        (HasStored(t) /\ loaded[t].done /\ OthersHaveNotWritten(t)) =>
            \A j \in Indices :
                (j # idx[t] /\ Container(j) = Container(idx[t])) =>
                    loadResult(mem[Container(j)], j, srcBits, dstBits, FALSE)
                        = loadResult(mem0[Container(j)], j, srcBits, dstBits, FALSE)

\* C3: two stores to distinct elements i # j of one container, run
\* concurrently as four atomic steps: in every interleaving the final
\* container holds v_i in the field the store assigns to i, v_j in the field
\* the store assigns to j, and every other bit keeps its initial value.
C3_ConcurrentDistinctStores ==
    \A t, u \in Threads :
        (/\ t # u
         /\ HasStored(t) /\ HasStored(u)
         /\ idx[t] # idx[u]
         /\ Container(idx[t]) = Container(idx[u])) =>
            LET c == Container(idx[t])
            IN  /\ regs[t].storeIndices = c /\ regs[u].storeIndices = c
                /\ Field(mem[c], regs[t].bitwidthOffset) = val[t]
                /\ Field(mem[c], regs[u].bitwidthOffset) = val[u]
                /\ SameOutside(mem[c], mem0[c],
                       FieldBits(regs[t].bitwidthOffset)
                           \cup FieldBits(regs[u].bitwidthOffset))
                /\ \A d \in Containers \ {c} : mem[d] = mem0[d]

\* C3 witness: both stores have completed on one container, at distinct
\* elements, with nonzero values that differ from the initial contents.
C3_Witness ==
    /\ HasStored("A") /\ HasStored("B")
    /\ idx["A"] # idx["B"]
    /\ Container(idx["A"]) = Container(idx["B"])
    /\ val["A"] # 0 /\ val["B"] # 0 /\ val["A"] # val["B"]
    /\ ~loaded["A"].done /\ ~loaded["B"].done
    /\ Field(mem0[Container(idx["A"])], regs["A"].bitwidthOffset) # val["A"]
    /\ mem[Container(idx["A"])] # mem0[Container(idx["A"])]

\* C4: the clear step and the set step of a store are separate atomic
\* operations: the clear step leaves the element's field all zero and every
\* bit outside that field as it was, and the set step again leaves every bit
\* outside the field as it was.
C4_ClearThenSet ==
    [][\A t \in Threads :
        /\ (pc[t] # "cleared" /\ pc'[t] = "cleared") =>
              LET c == Container(idx'[t])
              IN  /\ Field(mem'[c], regs'[t].bitwidthOffset) = 0
                  /\ SameOutside(mem'[c], mem[c], FieldBits(regs'[t].bitwidthOffset))
                  /\ \A d \in Containers \ {c} : mem'[d] = mem[d]
        /\ (pc[t] = "cleared" /\ pc'[t] = "stored") =>
              LET c == Container(idx[t])
              IN  /\ SameOutside(mem'[c], mem[c], FieldBits(regs[t].bitwidthOffset))
                  /\ \A d \in Containers \ {c} : mem'[d] = mem[d]
      ]_vars

\* C4 witness: thread A is between its clear and its set, the old and the new
\* value of the element are both nonzero, and thread B has read the container
\* in between and seen all-zero bits in the element's field.
C4_Witness ==
    LET c == Container(idx["A"])
        off == regs["A"].bitwidthOffset
    IN  /\ pc["A"] = "cleared"
        /\ val["A"] # 0
        /\ Field(mem0[c], off) # 0
        /\ pc["B"] = "loaded"
        /\ Container(idx["B"]) = c
        /\ Field(loaded["B"].word, off) = 0
        /\ SameOutside(loaded["B"].word, mem0[c], FieldBits(off))

\* C10: the write mask of a store at index i is built from the right-aligned
\* offset off = (k - 1 - (i mod k)) * s; it has exactly s zero bits, at
\* positions [off, off + s), and ones in the other t - s bits, and the value
\* shifted left by off lies inside the zeroed field.
C10_WriteMaskShape ==
    \A t \in Threads :
        InStore(t) =>
            LET off == (scale - 1 - (idx[t] % scale)) * srcBits
            IN  /\ regs[t].bitwidthOffset = off
                /\ regs[t].writeMask \in Words(dstBits)
                /\ ZeroBits(regs[t].writeMask) = FieldBits(off)
                /\ Cardinality(ZeroBits(regs[t].writeMask)) = srcBits
                /\ Cardinality(OneBits(regs[t].writeMask)) = dstBits - srcBits
                /\ regs[t].alignedVal \in Words(dstBits)
                /\ OneBits(regs[t].alignedVal) \subseteq FieldBits(off)
                /\ Field(regs[t].alignedVal, off) = val[t]

\* C10 witness: a store of a nonzero value to an element that is neither the
\* first nor (when the container holds more than two) the last of its
\* container has computed its mask.
C10_Witness ==
    \E t \in Threads :
        /\ InStore(t)
        /\ val[t] = (2 ^ srcBits) - 1
        /\ idx[t] % scale # 0
        /\ regs[t].bitwidthOffset > 0
        /\ regs[t].bitwidthOffset + srcBits < dstBits

\* C11: the left and right bit offsets are complementary and in range: for
\* every index i the left offset is (i mod k) * s, the right offset is
\* (k - 1 - (i mod k)) * s, their sum is exactly t - s, and each is a multiple
\* of s in [0, t); the offset a store has computed is the right one.
C11_OffsetsComplementary ==
    /\ \A i \in Indices :
          LET left == getOffsetForBitwidth(i, srcBits, dstBits, FALSE)
              right == getOffsetForBitwidth(i, srcBits, dstBits, TRUE)
          IN  /\ left = (i % scale) * srcBits
              /\ right = (scale - 1 - (i % scale)) * srcBits
              /\ left + right = dstBits - srcBits
              /\ left % srcBits = 0 /\ right % srcBits = 0
              /\ left \in 0 .. (dstBits - 1) /\ right \in 0 .. (dstBits - 1)
    /\ \A t \in Threads :
          InStore(t) =>
              regs[t].bitwidthOffset
                  + getOffsetForBitwidth(idx[t], srcBits, dstBits, FALSE)
                  = dstBits - srcBits

\* C11 witness: a store to an element of the second container, neither the
\* first nor the last of it, has computed its offset, which differs from the
\* left offset of that element.
C11_Witness ==
    \E t \in Threads :
        /\ InStore(t)
        /\ idx[t] >= scale
        /\ idx[t] % scale \notin {0, scale - 1}
        /\ regs[t].bitwidthOffset
               # getOffsetForBitwidth(idx[t], srcBits, dstBits, FALSE)

\* C12: read-after-write on a rank-0 buffer: once the rewritten rank-0 store
\* of v has completed (atomic AND with the constant mask (1 << (t - s)) - 1,
\* then atomic OR with v shifted left by t - s), the rewritten rank-0 load
\* (no shift, then mask or truncation to the low s bits) returns v (no other
\* thread having written to the buffer).
C12_Rank0ReadAfterWrite ==
    \A t \in Threads :
        (/\ pc[t] = "reread" /\ OthersHaveNotWritten(t)
         /\ regs[t].writeMask = (2 ^ (dstBits - srcBits)) - 1
         /\ regs[t].alignedVal = val[t] * (2 ^ (dstBits - srcBits))) =>
            reread[t] = val[t]

\* C13: two stores of v1 and v2 to the same index, run concurrently as four
\* atomic steps: in every interleaving the final content of the element's
\* field is v1, v2 or the bitwise OR of the two, and every bit of the
\* container outside that field, and every other container, is unchanged.
C13_ConcurrentSameIndexStores ==
    \A t, u \in Threads :
        (t # u /\ HasStored(t) /\ HasStored(u) /\ idx[t] = idx[u]) =>
            LET c == Container(idx[t])
                off == regs[t].bitwidthOffset
            IN  /\ regs[u].bitwidthOffset = off
                /\ regs[t].storeIndices = c /\ regs[u].storeIndices = c
                /\ Field(mem[c], off) \in {val[t], val[u], OrIOp(val[t], val[u])}
                /\ SameOutside(mem[c], mem0[c], FieldBits(off))
                /\ \A d \in Containers \ {c} : mem[d] = mem0[d]

\* C13 witness: both stores to one index have completed, interleaved so that
\* the field holds the OR of the two values, which is neither of them and not
\* the initial content.
C13_Witness ==
    LET c == Container(idx["A"])
        off == regs["A"].bitwidthOffset
    IN  /\ HasStored("A") /\ HasStored("B")
        /\ idx["A"] = idx["B"]
        /\ ~loaded["A"].done /\ ~loaded["B"].done
        /\ Field(mem[c], off) = OrIOp(val["A"], val["B"])
        /\ Field(mem[c], off) \notin {val["A"], val["B"]}
        /\ Field(mem[c], off) # Field(mem0[c], off)

====
